---- MODULE Spec2Model ----
(***************************************************************************)
(* A model of the national-exam practice tool: the question store and its  *)
(* indexes (utils/question_manager.py), the session handlers (app.py) and  *)
(* the scoring of the report generator (utils/report_generator.py).        *)
(*                                                                         *)
(* Python values that may be None, a scalar or a list are records          *)
(* [kind, items]: kind is the Python type ("null", "scalar", "list") and   *)
(* items the elements (a scalar is carried as its one element).            *)
(***************************************************************************)
EXTENDS Integers, Sequences, FiniteSets, TLC

VARIABLES
    questions,           \* QuestionManager.questions: the list loaded from questions.json
    _exam_number_index,  \* QuestionManager._exam_number_index
    _category_index,     \* QuestionManager._category_index
    _id_index,           \* QuestionManager._id_index
    sessions,            \* app.sessions: session_id -> session data
    session_files,       \* SESSIONS_DIR/<session_id>.json: the archived sessions
    clock,               \* datetime.now(), counted in answers recorded
    request,             \* the request being answered (its inputs)
    response,            \* the response of the last request
    rng,                 \* the state of the random module's generator
    hash_order,          \* the order in which this process iterates a set of ids
    redis,               \* the Vercel KV store: session_id -> value and expiry
    inflight             \* the requests being served, one per worker

vars == <<questions, _exam_number_index, _category_index, _id_index,
          sessions, session_files, clock, request, response,
          rng, hash_order, redis, inflight>>

store_vars == <<questions, _exam_number_index, _category_index, _id_index>>

\* what the requests of the in-memory application, served one at a time,
\* leave alone
runtime_vars == <<rng, hash_order, redis, inflight>>

-----------------------------------------------------------------------------
(* Bounds of the model *)

\* longest list of exam numbers or of categories a request carries
MaxFilterLen == 2

\* largest max_questions a request asks for
MaxRequested == 3

\* largest number of answers recorded in one run
MaxSubmits == 2

\* longest answers list of a session a report is generated for
MaxReportAnswers == 2

\* largest number of answers recorded in one run over every endpoint
MaxApiSubmits == 2

\* longest answers list of a session a PDF is generated for
MaxPdfAnswers == 12

\* largest state of the random generator (its states are 0..MaxRngState)
MaxRngState == 3

\* how many half days pass in a run of the session store
MaxTicks == 3

-----------------------------------------------------------------------------
(* Python values *)

PyNone == [kind |-> "null", items |-> <<>>]

PyList(s) == [kind |-> "list", items |-> s]

PyScalar(v) == [kind |-> "scalar", items |-> <<v>>]

\* bool(v) of None or of a list: `if exam_numbers`, `x if x else None`
Truthy(v) == v.kind = "list" /\ v.items # <<>>

\* set(list)
ToSet(s) == {s[i] : i \in DOMAIN s}

\* min(a, b)
Min(a, b) == IF a <= b THEN a ELSE b

\* the sequences over S of length 0..n
SeqsUpTo(S, n) == UNION {[1..k -> S] : k \in 0..n}

\* the orders in which a Python set may be iterated: every list that holds
\* each element of S once
Orderings(S) == {s \in [1..Cardinality(S) -> S] : ToSet(s) = S}

RECURSIVE Concat(_)
\* list.extend over a list of lists
Concat(ss) == IF ss = <<>> THEN <<>> ELSE Head(ss) \o Concat(Tail(ss))

-----------------------------------------------------------------------------
(* The question bank *)

\* exam sittings of the bank and the question numbers within a sitting
ExamNumbers == {29, 30}

Categories == {"anatomy", "physiology"}

\* excel_loader: "id": f"{exam_number}_{question_id}"
QuestionId(exam_number, question_number) ==
    CASE exam_number = 29 /\ question_number = 1 -> "29_1"
      [] exam_number = 29 /\ question_number = 2 -> "29_2"
      [] exam_number = 30 /\ question_number = 1 -> "30_1"
      [] exam_number = 30 /\ question_number = 2 -> "30_2"

\* the (exam_number, question_number) rows a bank is drawn from
QuestionKeys == {<<29, 1>>, <<29, 2>>, <<30, 1>>}

\* excel_loader: a correct answer is None (no usable cell) or a list of labels
CorrectAnswers == {PyNone, PyList(<<>>), PyList(<<1>>), PyList(<<1, 3>>)}

Question(key, cat, correct) ==
    [id |-> QuestionId(key[1], key[2]), exam_number |-> key[1],
     category |-> cat, correct_answer |-> correct]

\* QuestionManager.__init__: the three indexes of a question list
ExamNumberIndex(qs) ==
    [e \in {qs[i].exam_number : i \in DOMAIN qs} |->
        SelectSeq(qs, LAMBDA q : q.exam_number = e)]

CategoryIndex(qs) ==
    [c \in {qs[i].category : i \in DOMAIN qs} |->
        SelectSeq(qs, LAMBDA q : q.category = c)]

\* a later question with the same id replaces the earlier one
IdIndex(qs) ==
    [d \in {qs[i].id : i \in DOMAIN qs} |->
        qs[CHOOSE i \in DOMAIN qs :
              /\ qs[i].id = d
              /\ \A j \in DOMAIN qs : qs[j].id = d => j <= i]]

\* the banks over the rows keys: every ordered choice of rows, each row once, with
\* every assignment of categories (cats) and correct answers (corrects)
Banks(keys, cats, corrects) ==
    {qs \in SeqsUpTo({Question(k, c, a) : k \in keys, c \in cats, a \in corrects},
                     Cardinality(keys)) :
        \A i, j \in DOMAIN qs : qs[i].id = qs[j].id => i = j}

LoadBank(qs) ==
    /\ questions = qs
    /\ _exam_number_index = ExamNumberIndex(qs)
    /\ _category_index = CategoryIndex(qs)
    /\ _id_index = IdIndex(qs)

-----------------------------------------------------------------------------
(* QuestionManager *)

get_all_questions == questions

\* get_question_by_id finding no question past the last but one of the list
get_question_by_id_skipping_last(question_id) ==
    IF \E i \in 1..(Len(questions) - 1) : questions[i].id = question_id
    THEN PyList(<<_id_index[question_id]>>) ELSE PyNone

\* dict.get: the question, or None
get_question_by_id(question_id) ==
    IF question_id \in DOMAIN _id_index
    THEN PyList(<<_id_index[question_id]>>) ELSE PyNone

\* the ids gathered from an index for the listed keys (a Python set)
IndexedIds(index, keys) ==
    {q.id : q \in UNION {ToSet(index[k]) : k \in ToSet(keys) \cap DOMAIN index}}

\* the index entries of the listed keys, one after the other in list order
IndexedLists(index, keys) ==
    Concat([i \in DOMAIN keys |->
               IF keys[i] \in DOMAIN index THEN index[keys[i]] ELSE <<>>])

\* filter_questions with the two id sets united instead of intersected
filter_questions_united(exam_numbers, categories) ==
    IF Truthy(exam_numbers) /\ Truthy(categories)
    THEN LET exam_question_ids == IndexedIds(_exam_number_index, exam_numbers.items)
             cat_question_ids == IndexedIds(_category_index, categories.items)
             common_ids == (exam_question_ids \cup cat_question_ids) \cap DOMAIN _id_index
         IN  {[i \in DOMAIN order |-> _id_index[order[i]]] : order \in Orderings(common_ids)}
    ELSE IF Truthy(exam_numbers)
    THEN {IndexedLists(_exam_number_index, exam_numbers.items)}
    ELSE IF Truthy(categories)
    THEN {IndexedLists(_category_index, categories.items)}
    ELSE {questions}

\* the lists filter_questions may return: one list, except where the result
\* is read off a set of ids, whose iteration order is not fixed
filter_questions(exam_numbers, categories) ==
    IF Truthy(exam_numbers) /\ Truthy(categories)
    THEN LET exam_question_ids == IndexedIds(_exam_number_index, exam_numbers.items)
             cat_question_ids == IndexedIds(_category_index, categories.items)
             common_ids == (exam_question_ids \cap cat_question_ids) \cap DOMAIN _id_index
         IN  {[i \in DOMAIN order |-> _id_index[order[i]]] : order \in Orderings(common_ids)}
    ELSE IF Truthy(exam_numbers)
    THEN {IndexedLists(_exam_number_index, exam_numbers.items)}
    ELSE IF Truthy(categories)
    THEN {IndexedLists(_category_index, categories.items)}
    ELSE {questions}

\* random.sample(population, k): k picks at k different positions
Samples(population, k) ==
    {[i \in 1..k |-> population[p[i]]] :
        p \in {f \in [1..k -> DOMAIN population] : \A i, j \in 1..k : f[i] = f[j] => i = j}}

\* filter_and_sample_questions drawing one question too many
filter_and_sample_questions_one_more(exam_numbers, categories, max_questions) ==
    UNION {
        IF max_questions.kind = "null" \/ max_questions.items[1] <= 0
        THEN {filtered}
        ELSE IF Len(filtered) <= max_questions.items[1]
        THEN {filtered}
        ELSE Samples(filtered, max_questions.items[1] + 1)
      : filtered \in filter_questions(exam_numbers, categories)}

\* filter_and_sample_questions sampling also when the filtered list has
\* exactly max_questions entries
filter_and_sample_questions_strict(exam_numbers, categories, max_questions) ==
    UNION {
        IF max_questions.kind = "null" \/ max_questions.items[1] <= 0
        THEN {filtered}
        ELSE IF Len(filtered) < max_questions.items[1]
        THEN {filtered}
        ELSE Samples(filtered, max_questions.items[1])
      : filtered \in filter_questions(exam_numbers, categories)}

\* the lists filter_and_sample_questions may return
filter_and_sample_questions(exam_numbers, categories, max_questions) ==
    UNION {
        IF max_questions.kind = "null" \/ max_questions.items[1] <= 0
        THEN {filtered}
        ELSE IF Len(filtered) <= max_questions.items[1]
        THEN {filtered}
        ELSE Samples(filtered, max_questions.items[1])
      : filtered \in filter_questions(exam_numbers, categories)}

-----------------------------------------------------------------------------
(* Requests *)

\* a list of exam numbers, or of categories, as a request carries it
FilterValues(S) == {PyNone} \cup {PyList(s) : s \in SeqsUpTo(S, MaxFilterLen)}

MaxQuestionsValues == {PyNone} \cup {PyScalar(n) : n \in -1..MaxRequested}

NoRequest == [op |-> "none"]

NoResponse == [status |-> 0]

\* sorted(list(S)) of a set of integers
RECURSIVE Sorted(_)
Sorted(S) ==
    IF S = {} THEN <<>>
    ELSE LET m == CHOOSE x \in S : \A y \in S : x <= y
         IN  <<m>> \o Sorted(S \ {m})

get_exam_numbers == Sorted(DOMAIN _exam_number_index)

\* the tokens uuid4 issues in a run, and the session ids requests may name:
\* the issued tokens and one token that is never issued
IssuedIds == {"s1"}

SessionIds == IssuedIds \cup {"s0"}

\* sessions.get(session_id) of an id that has no session
NoSession == [session_id |-> "None"]

\* redis.get of a key that is not set
NoEntry == [expires_at |-> 0]

\* the workers (threads of one process, or serverless instances) that serve
\* requests at the same time
Workers == {"w1", "w2"}

\* a worker that serves no request
Idle == [pc |-> "idle"]

\* no Redis configured, no request half served; the generator's state and the
\* hash order are read by seeded sampling only
RuntimeIdle ==
    /\ rng = 0
    /\ hash_order = <<>>
    /\ redis = [s \in SessionIds |-> NoEntry]
    /\ inflight = [w \in Workers |-> Idle]

\* GET /api/questions
get_questions(exam_numbers, categories) ==
    LET e == IF Truthy(exam_numbers) THEN exam_numbers ELSE PyNone
        c == IF Truthy(categories) THEN categories ELSE PyNone
    IN  \E result \in filter_questions(e, c) :
            /\ request' = [op |-> "get_questions", exam_numbers |-> exam_numbers,
                           categories |-> categories]
            /\ response' = [status |-> 200, questions |-> result, total |-> Len(result)]
            /\ UNCHANGED <<store_vars, runtime_vars, sessions, session_files, clock>>

\* GET /api/questions/<question_id>
get_question(question_id) ==
    LET question == get_question_by_id(question_id)
    IN  /\ request' = [op |-> "get_question", question_id |-> question_id]
        /\ response' = IF Truthy(question)
                       THEN [status |-> 200, question |-> question.items[1]]
                       ELSE [status |-> 404, error |-> "Question not found"]
        /\ UNCHANGED <<store_vars, runtime_vars, sessions, session_files, clock>>

\* a direct call of QuestionManager.filter_and_sample_questions
sample_questions(exam_numbers, categories, max_questions) ==
    \E result \in filter_and_sample_questions(exam_numbers, categories, max_questions) :
        /\ request' = [op |-> "filter_and_sample_questions", exam_numbers |-> exam_numbers,
                       categories |-> categories, max_questions |-> max_questions]
        /\ response' = [status |-> 200, questions |-> result, total |-> Len(result)]
        /\ UNCHANGED <<store_vars, runtime_vars, sessions, session_files, clock>>

\* no file SESSIONS_DIR/<session_id>.json
NoFile == [session_id |-> "None"]

\* session_data has no 'report' key
NoReport == [total |-> -1]

\* save_session, in-memory store: sessions[session_id] = data
save_session(session_id, data) == [sessions EXCEPT ![session_id] = data]

\* get_session_data handing out a new, empty session for an id that has none
get_session_data_defaulting(session_id) ==
    IF sessions[session_id] # NoSession THEN sessions[session_id]
    ELSE [session_id |-> session_id,
          mode |-> "test",
          exam_numbers |-> <<>>,
          categories |-> <<>>,
          max_questions |-> PyNone,
          questions |-> <<>>,
          answers |-> <<>>,
          current_question_index |-> 0,
          report |-> NoReport]

\* get_session_data, in-memory store: sessions.get(session_id)
get_session_data(session_id) == sessions[session_id]

\* create_session sampling by a shuffle in place: without filters the list
\* shuffled is the store's own
create_session_shuffling(session_id, exam_numbers_in, categories_in, max_questions) ==
    LET exam_numbers == IF Truthy(exam_numbers_in) THEN exam_numbers_in ELSE PyNone
        categories == IF Truthy(categories_in) THEN categories_in ELSE PyNone
        sampling == max_questions.kind # "null" /\ max_questions.items[1] > 0
    IN  \E filtered \in filter_questions(exam_numbers, categories),
           recount \in filter_questions(exam_numbers, categories) :
          \E order \in Orderings(1..Len(filtered)) :
            LET shuffles == sampling /\ Len(filtered) > max_questions.items[1]
                shuffled == [i \in DOMAIN filtered |-> filtered[order[i]]]
                qs == IF shuffles THEN SubSeq(shuffled, 1, max_questions.items[1])
                      ELSE filtered
                session_data ==
                    [session_id |-> session_id,
                     mode |-> "test",
                     exam_numbers |-> IF Truthy(exam_numbers) THEN exam_numbers.items
                                      ELSE get_exam_numbers,
                     categories |-> IF Truthy(categories) THEN categories.items ELSE <<>>,
                     max_questions |-> max_questions,
                     questions |-> qs,
                     answers |-> <<>>,
                     current_question_index |-> 0,
                     report |-> NoReport]
            IN  /\ sessions' = save_session(session_id, session_data)
                /\ request' = [op |-> "create_session", exam_numbers |-> exam_numbers_in,
                               categories |-> categories_in,
                               max_questions |-> max_questions]
                /\ response' =
                       [status |-> 200, session_id |-> session_id,
                        total_questions |-> Len(qs),
                        filtered_total |->
                            IF Truthy(exam_numbers) \/ Truthy(categories)
                            THEN Len(recount) ELSE Len(get_all_questions)]
                /\ questions' = IF shuffles /\ ~Truthy(exam_numbers) /\ ~Truthy(categories)
                                THEN shuffled ELSE questions
                /\ UNCHANGED <<runtime_vars, _exam_number_index, _category_index, _id_index,
                               session_files, clock>>

\* create_session reporting the size of the store as filtered_total whatever
\* the filters
create_session_counting_store(session_id, exam_numbers_in, categories_in, max_questions) ==
    LET exam_numbers == IF Truthy(exam_numbers_in) THEN exam_numbers_in ELSE PyNone
        categories == IF Truthy(categories_in) THEN categories_in ELSE PyNone
        results ==
            IF max_questions.kind # "null" /\ max_questions.items[1] > 0
            THEN filter_and_sample_questions(exam_numbers, categories, max_questions)
            ELSE filter_questions(exam_numbers, categories)
    IN  \E qs \in results :
            LET session_data ==
                    [session_id |-> session_id,
                     mode |-> "test",
                     exam_numbers |-> IF Truthy(exam_numbers) THEN exam_numbers.items
                                      ELSE get_exam_numbers,
                     categories |-> IF Truthy(categories) THEN categories.items ELSE <<>>,
                     max_questions |-> max_questions,
                     questions |-> qs,
                     answers |-> <<>>,
                     current_question_index |-> 0,
                     report |-> NoReport]
            IN  /\ sessions' = save_session(session_id, session_data)
                /\ request' = [op |-> "create_session", exam_numbers |-> exam_numbers_in,
                               categories |-> categories_in,
                               max_questions |-> max_questions]
                /\ response' =
                       [status |-> 200, session_id |-> session_id,
                        total_questions |-> Len(qs),
                        filtered_total |-> Len(get_all_questions)]
                /\ UNCHANGED <<store_vars, runtime_vars, session_files, clock>>

\* POST /api/sessions with a JSON body
create_session(session_id, exam_numbers_in, categories_in, max_questions) ==
    LET exam_numbers == IF Truthy(exam_numbers_in) THEN exam_numbers_in ELSE PyNone
        categories == IF Truthy(categories_in) THEN categories_in ELSE PyNone
        results ==
            IF max_questions.kind # "null" /\ max_questions.items[1] > 0
            THEN filter_and_sample_questions(exam_numbers, categories, max_questions)
            ELSE filter_questions(exam_numbers, categories)
    IN  \E qs \in results, recount \in filter_questions(exam_numbers, categories) :
            LET session_data ==
                    [session_id |-> session_id,
                     mode |-> "test",
                     exam_numbers |-> IF Truthy(exam_numbers) THEN exam_numbers.items
                                      ELSE get_exam_numbers,
                     categories |-> IF Truthy(categories) THEN categories.items ELSE <<>>,
                     max_questions |-> max_questions,
                     questions |-> qs,
                     answers |-> <<>>,
                     current_question_index |-> 0,
                     report |-> NoReport]
            IN  /\ sessions' = save_session(session_id, session_data)
                /\ request' = [op |-> "create_session", exam_numbers |-> exam_numbers_in,
                               categories |-> categories_in,
                               max_questions |-> max_questions]
                /\ response' =
                       [status |-> 200, session_id |-> session_id,
                        total_questions |-> Len(qs),
                        filtered_total |->
                            IF Truthy(exam_numbers) \/ Truthy(categories)
                            THEN Len(recount) ELSE Len(get_all_questions)]
                /\ UNCHANGED <<store_vars, runtime_vars, session_files, clock>>

\* request.get_json(silent=True) of a missing or malformed body
NoBody == [question_id |-> "invalid"]

\* POST /api/sessions without a body, or with one that is not JSON: answered
\* before a session id is drawn
create_session_without_body ==
    /\ request' = [op |-> "create_session", data |-> NoBody]
    /\ response' = [status |-> 400, error |-> "Invalid JSON or missing request body"]
    /\ UNCHANGED <<store_vars, runtime_vars, sessions, session_files, clock>>

-----------------------------------------------------------------------------
(* ReportGenerator *)

\* {q['id']: q for q in questions}: a later question replaces an earlier one
\* of the same id
QuestionDict(qs) ==
    [d \in {qs[i].id : i \in DOMAIN qs} |->
        qs[CHOOSE i \in DOMAIN qs :
              /\ qs[i].id = d
              /\ \A j \in DOMAIN qs : qs[j].id = d => j <= i]]

ZeroStats == [total |-> 0, correct |-> 0, incorrect |-> 0, unanswered |-> 0]

ZeroTally ==
    [correct |-> 0, incorrect |-> 0, unanswered |-> 0, category_stats |-> <<>>,
     raised |-> FALSE]

\* json_verdict comparing a list answer with the correct answers as lists
json_verdict_ordered(user_answer, correct_answer) ==
    IF user_answer.kind = "null" THEN "unanswered"
    ELSE IF user_answer.kind = "list"
    THEN IF correct_answer.kind = "null" THEN "TypeError"
         ELSE IF user_answer.items = correct_answer.items
         THEN "correct" ELSE "incorrect"
    ELSE IF correct_answer.kind = "null" THEN "TypeError"
         ELSE IF user_answer.items[1] \in ToSet(correct_answer.items)
         THEN "correct" ELSE "incorrect"

\* generate_json_report's verdict on one answer; set(None) and `x in None`
\* raise TypeError
json_verdict(user_answer, correct_answer) ==
    IF user_answer.kind = "null" THEN "unanswered"
    ELSE IF user_answer.kind = "list"
    THEN IF correct_answer.kind = "null" THEN "TypeError"
         ELSE IF ToSet(user_answer.items) = ToSet(correct_answer.items)
         THEN "correct" ELSE "incorrect"
    ELSE IF correct_answer.kind = "null" THEN "TypeError"
         ELSE IF user_answer.items[1] \in ToSet(correct_answer.items)
         THEN "correct" ELSE "incorrect"

RECURSIVE json_tally(_, _, _)
\* generate_json_report's loop over the answers
json_tally(answers, question_dict, acc) ==
    IF answers = <<>> \/ acc.raised THEN acc
    ELSE LET answer_data == Head(answers)
             question_id == answer_data.question_id
         IN  IF question_id \notin DOMAIN question_dict
             THEN json_tally(Tail(answers), question_dict, acc)
             ELSE LET question == question_dict[question_id]
                      cat == question.category
                      known == IF cat \in DOMAIN acc.category_stats
                               THEN acc.category_stats
                               ELSE acc.category_stats @@ (cat :> ZeroStats)
                      counted == [known EXCEPT ![cat].total = @ + 1]
                      verdict == json_verdict(answer_data.answer, question.correct_answer)
                  IN  IF verdict = "TypeError"
                      THEN [acc EXCEPT !.raised = TRUE]
                      ELSE json_tally(Tail(answers), question_dict,
                               [acc EXCEPT ![verdict] = @ + 1,
                                           !.category_stats =
                                               [counted EXCEPT ![cat][verdict] = @ + 1]])

\* correct / total * 100, kept as the fraction <<numerator, denominator>>
Rate(correct, total) == IF total > 0 THEN <<correct * 100, total>> ELSE <<0, 1>>

\* fraction a is smaller than fraction b
RateLess(a, b) == a[1] * b[2] < b[1] * a[2]

RECURSIVE category_keys(_, _, _)
\* the keys of category_stats in the order the loop over the answers inserts
\* them: a category enters with the first answer that resolves to it
category_keys(answers, question_dict, keys) ==
    IF answers = <<>> THEN keys
    ELSE LET question_id == Head(answers).question_id
         IN  IF question_id \notin DOMAIN question_dict
             THEN category_keys(Tail(answers), question_dict, keys)
             ELSE LET cat == question_dict[question_id].category
                  IN  category_keys(Tail(answers), question_dict,
                          IF cat \in ToSet(keys) THEN keys ELSE Append(keys, cat))

\* list s without its i-th entry
Without(s, i) == SubSeq(s, 1, i - 1) \o SubSeq(s, i + 1, Len(s))

RECURSIVE sorted_categories_ascending(_, _)
\* sorted_categories without reverse=True: the lowest rate first
sorted_categories_ascending(category_stats, keys) ==
    IF keys = <<>> THEN <<>>
    ELSE LET rate(k) == Rate(category_stats[k].correct, category_stats[k].total)
             first == CHOOSE i \in DOMAIN keys :
                         /\ \A j \in DOMAIN keys : ~RateLess(rate(keys[j]), rate(keys[i]))
                         /\ \A j \in 1..(i - 1) : RateLess(rate(keys[i]), rate(keys[j]))
         IN  <<keys[first]>> \o sorted_categories_ascending(category_stats, Without(keys, first))

RECURSIVE sorted_categories(_, _)
\* sorted(category_stats.items(), key=correct / total * 100, reverse=True):
\* the categories by descending rate, equal rates in the order of the keys
sorted_categories(category_stats, keys) ==
    IF keys = <<>> THEN <<>>
    ELSE LET rate(k) == Rate(category_stats[k].correct, category_stats[k].total)
             first == CHOOSE i \in DOMAIN keys :
                         /\ \A j \in DOMAIN keys : ~RateLess(rate(keys[i]), rate(keys[j]))
                         /\ \A j \in 1..(i - 1) : RateLess(rate(keys[j]), rate(keys[i]))
         IN  <<keys[first]>> \o sorted_categories(category_stats, Without(keys, first))

\* the report's 'answers' and 'questions' are the session's own lists and are
\* not repeated in the model's record
generate_json_report(session_data) ==
    LET answers == session_data.answers
        tally == json_tally(answers, QuestionDict(session_data.questions), ZeroTally)
    IN  IF tally.raised THEN [raised |-> TRUE]
        ELSE [raised |-> FALSE,
              total |-> Len(answers),
              correct |-> tally.correct,
              incorrect |-> tally.incorrect,
              unanswered |-> tally.unanswered,
              correct_rate |-> Rate(tally.correct, Len(answers)),
              category_stats |-> tally.category_stats]

\* generate_markdown_report's verdict on one answer, in the statistics
markdown_verdict(user_answer, correct_answer) ==
    IF user_answer.kind = "null" THEN "unanswered"
    ELSE IF user_answer.kind = "list"
    THEN IF correct_answer.kind = "null" THEN "TypeError"
         ELSE IF ToSet(user_answer.items) = ToSet(correct_answer.items)
         THEN "correct" ELSE "incorrect"
    ELSE IF correct_answer.kind = "null" THEN "TypeError"
         ELSE IF user_answer.items[1] \in ToSet(correct_answer.items)
         THEN "correct" ELSE "incorrect"

RECURSIVE markdown_tally(_, _, _)
\* generate_markdown_report's loop over the answers
markdown_tally(answers, question_dict, acc) ==
    IF answers = <<>> \/ acc.raised THEN acc
    ELSE LET answer_data == Head(answers)
             question_id == answer_data.question_id
         IN  IF question_id \notin DOMAIN question_dict
             THEN markdown_tally(Tail(answers), question_dict, acc)
             ELSE LET question == question_dict[question_id]
                      cat == question.category
                      known == IF cat \in DOMAIN acc.category_stats
                               THEN acc.category_stats
                               ELSE acc.category_stats @@ (cat :> ZeroStats)
                      counted == [known EXCEPT ![cat].total = @ + 1]
                      verdict == markdown_verdict(answer_data.answer,
                                                  question.correct_answer)
                  IN  IF verdict = "TypeError"
                      THEN [acc EXCEPT !.raised = TRUE]
                      ELSE markdown_tally(Tail(answers), question_dict,
                               [acc EXCEPT ![verdict] = @ + 1,
                                           !.category_stats =
                                               [counted EXCEPT ![cat][verdict] = @ + 1]])

\* the result line of one answer in the per-question details
markdown_mark(user_answer, correct_answer) ==
    IF user_answer.kind = "null" THEN "unanswered"
    ELSE IF user_answer.kind = "list"
    THEN IF correct_answer.kind = "null" THEN "TypeError"
         ELSE IF ToSet(user_answer.items) = ToSet(correct_answer.items)
         THEN "correct" ELSE "incorrect"
    ELSE IF correct_answer.kind = "null" THEN "TypeError"
         ELSE IF user_answer.items[1] \in ToSet(correct_answer.items)
         THEN "correct" ELSE "incorrect"

\* the per-question details: one entry for each answer whose question resolves,
\* numbered by the answer's position
markdown_details(answers, question_dict) ==
    LET resolved == SelectSeq([i \in DOMAIN answers |-> i],
                              LAMBDA i : answers[i].question_id \in DOMAIN question_dict)
    IN  [k \in DOMAIN resolved |->
            LET answer_data == answers[resolved[k]]
                question == question_dict[answer_data.question_id]
            IN  [number |-> resolved[k],
                 question_id |-> answer_data.question_id,
                 result |-> markdown_mark(answer_data.answer, question.correct_answer)]]

\* the Markdown text, as the figures and result lines it prints
generate_markdown_report(session_data) ==
    LET answers == session_data.answers
        question_dict == QuestionDict(session_data.questions)
        tally == markdown_tally(answers, question_dict, ZeroTally)
    IN  IF tally.raised THEN [raised |-> TRUE]
        ELSE [raised |-> FALSE,
              total |-> Len(answers),
              correct |-> tally.correct,
              incorrect |-> tally.incorrect,
              unanswered |-> tally.unanswered,
              correct_rate |-> Rate(tally.correct, Len(answers)),
              category_stats |-> tally.category_stats,
              sections |-> sorted_categories(tally.category_stats,
                               category_keys(answers, question_dict, <<>>)),
              details |-> markdown_details(answers, question_dict)]

\* pdf_verdict scoring a scalar answer correct only when it is the one
\* correct label
pdf_verdict_sole_label(user_answer, correct_answer) ==
    IF user_answer.kind = "null" THEN "unanswered"
    ELSE IF user_answer.kind = "list"
    THEN IF correct_answer.kind = "null" THEN "TypeError"
         ELSE IF ToSet(user_answer.items) = ToSet(correct_answer.items)
         THEN "correct" ELSE "incorrect"
    ELSE IF correct_answer.kind = "null" THEN "TypeError"
         ELSE IF {user_answer.items[1]} = ToSet(correct_answer.items)
         THEN "correct" ELSE "incorrect"

\* generate_pdf_report's verdict on one answer, in the statistics
pdf_verdict(user_answer, correct_answer) ==
    IF user_answer.kind = "null" THEN "unanswered"
    ELSE IF user_answer.kind = "list"
    THEN IF correct_answer.kind = "null" THEN "TypeError"
         ELSE IF ToSet(user_answer.items) = ToSet(correct_answer.items)
         THEN "correct" ELSE "incorrect"
    ELSE IF correct_answer.kind = "null" THEN "TypeError"
         ELSE IF user_answer.items[1] \in ToSet(correct_answer.items)
         THEN "correct" ELSE "incorrect"

RECURSIVE pdf_tally(_, _, _)
\* generate_pdf_report's loop over the answers
pdf_tally(answers, question_dict, acc) ==
    IF answers = <<>> \/ acc.raised THEN acc
    ELSE LET answer_data == Head(answers)
             question_id == answer_data.question_id
         IN  IF question_id \notin DOMAIN question_dict
             THEN pdf_tally(Tail(answers), question_dict, acc)
             ELSE LET question == question_dict[question_id]
                      cat == question.category
                      known == IF cat \in DOMAIN acc.category_stats
                               THEN acc.category_stats
                               ELSE acc.category_stats @@ (cat :> ZeroStats)
                      counted == [known EXCEPT ![cat].total = @ + 1]
                      verdict == pdf_verdict(answer_data.answer, question.correct_answer)
                  IN  IF verdict = "TypeError"
                      THEN [acc EXCEPT !.raised = TRUE]
                      ELSE pdf_tally(Tail(answers), question_dict,
                               [acc EXCEPT ![verdict] = @ + 1,
                                           !.category_stats =
                                               [counted EXCEPT ![cat][verdict] = @ + 1]])

\* the result paragraph of one answer in the PDF's per-question details
pdf_mark(user_answer, correct_answer) ==
    IF user_answer.kind = "null" THEN "unanswered"
    ELSE IF user_answer.kind = "list"
    THEN IF correct_answer.kind = "null" THEN "TypeError"
         ELSE IF ToSet(user_answer.items) = ToSet(correct_answer.items)
         THEN "correct" ELSE "incorrect"
    ELSE IF correct_answer.kind = "null" THEN "TypeError"
         ELSE IF user_answer.items[1] \in ToSet(correct_answer.items)
         THEN "correct" ELSE "incorrect"

\* if i % 10 == 0 and i < len(answers): story.append(PageBreak())
QuestionsPerPage == 10

\* the part of the story after the heading of the per-question details: for
\* each answer whose question resolves its detail, numbered by the answer's
\* position i, followed by a page break when i is a multiple of 10 and not the
\* last position; an answer that does not resolve is passed over by `continue`
pdf_story(answers, question_dict) ==
    Concat([i \in DOMAIN answers |->
        IF answers[i].question_id \notin DOMAIN question_dict THEN <<>>
        ELSE <<[kind |-> "detail", number |-> i,
                question_id |-> answers[i].question_id,
                result |-> pdf_mark(answers[i].answer,
                                    question_dict[answers[i].question_id].correct_answer)]>>
             \o (IF i % QuestionsPerPage = 0 /\ i < Len(answers)
                 THEN <<[kind |-> "PageBreak", number |-> i,
                         question_id |-> answers[i].question_id, result |-> "none"]>>
                 ELSE <<>>)])

\* the PDF, as the figures of its summary tables, the order of its category
\* sections and the story of its per-question details
generate_pdf_report(session_data) ==
    LET answers == session_data.answers
        question_dict == QuestionDict(session_data.questions)
        tally == pdf_tally(answers, question_dict, ZeroTally)
    IN  IF tally.raised THEN [raised |-> TRUE]
        ELSE [raised |-> FALSE,
              total |-> Len(answers),
              correct |-> tally.correct,
              incorrect |-> tally.incorrect,
              unanswered |-> tally.unanswered,
              correct_rate |-> Rate(tally.correct, Len(answers)),
              category_stats |-> tally.category_stats,
              sections |-> sorted_categories(tally.category_stats,
                               category_keys(answers, question_dict, <<>>)),
              story |-> pdf_story(answers, question_dict)]

-----------------------------------------------------------------------------
(* Session handlers *)

\* GET /api/sessions/<session_id>
get_session(session_id) ==
    LET session_data == get_session_data(session_id)
    IN  /\ request' = [op |-> "get_session", session_id |-> session_id]
        /\ response' = IF session_data # NoSession
                       THEN [status |-> 200, session |-> session_data]
                       ELSE [status |-> 404, error |-> "Session not found"]
        /\ UNCHANGED <<store_vars, runtime_vars, sessions, session_files, clock>>

\* data.get('question_id') of a body without question_id
NoneId == "None"

\* the first index whose record has the question_id, or 0 for None
existing_index(answers, question_id) ==
    IF \E i \in DOMAIN answers : answers[i].question_id = question_id
    THEN CHOOSE i \in DOMAIN answers :
            /\ answers[i].question_id = question_id
            /\ \A j \in DOMAIN answers : answers[j].question_id = question_id => i <= j
    ELSE 0

\* upsert_answer never replacing a record
upsert_answer_appending(answers, answer_data) == Append(answers, answer_data)

\* upsert_answer adding the time spent to the time of the record it replaces
upsert_answer_adding_time(answers, answer_data) ==
    LET index == existing_index(answers, answer_data.question_id)
    IN  IF index # 0
        THEN [answers EXCEPT ![index] =
                 [answer_data EXCEPT !.time_spent = @ + answers[index].time_spent]]
        ELSE Append(answers, answer_data)

\* the answers list after the upsert of answer_data
upsert_answer(answers, answer_data) ==
    LET index == existing_index(answers, answer_data.question_id)
    IN  IF index # 0 THEN [answers EXCEPT ![index] = answer_data]
        ELSE Append(answers, answer_data)

\* submit_answer reading a missing or malformed body as the empty object
submit_answer_defaulting_body(session_id, data) ==
    LET session_data == get_session_data(session_id)
        body == IF data = NoBody
                THEN [question_id |-> NoneId, answer |-> PyNone, time_spent |-> 0]
                ELSE data
        answer_data == [question_id |-> body.question_id,
                        answer |-> body.answer,
                        time_spent |-> body.time_spent,
                        submitted_at |-> clock + 1]
        updated == [session_data EXCEPT
                       !.answers = upsert_answer(session_data.answers, answer_data)]
        repeats == /\ request.op = "submit_answer"
                   /\ request.session_id = session_id
                   /\ request.data = data
                   /\ response.status = 200
    IN  /\ request' = [op |-> "submit_answer", session_id |-> session_id, data |-> data,
                       repeats |-> repeats]
        /\ IF session_data = NoSession
           THEN /\ response' = [status |-> 404, error |-> "Session not found"]
                /\ UNCHANGED <<sessions, clock>>
           ELSE /\ sessions' = save_session(session_id, updated)
                /\ clock' = clock + 1
                /\ response' = [status |-> 200, success |-> TRUE]
        /\ UNCHANGED <<store_vars, runtime_vars, session_files>>

\* submit_answer taking the answered question off the session's question list
submit_answer_consuming(session_id, data) ==
    LET session_data == get_session_data(session_id)
        answer_data == [question_id |-> data.question_id,
                        answer |-> data.answer,
                        time_spent |-> data.time_spent,
                        submitted_at |-> clock + 1]
        updated == [session_data EXCEPT
                       !.answers = upsert_answer(session_data.answers, answer_data),
                       !.questions = SelectSeq(session_data.questions,
                                               LAMBDA q : q.id # data.question_id)]
        repeats == /\ request.op = "submit_answer"
                   /\ request.session_id = session_id
                   /\ request.data = data
                   /\ response.status = 200
    IN  /\ request' = [op |-> "submit_answer", session_id |-> session_id, data |-> data,
                       repeats |-> repeats]
        /\ IF session_data = NoSession
           THEN /\ response' = [status |-> 404, error |-> "Session not found"]
                /\ UNCHANGED <<sessions, clock>>
           ELSE IF data = NoBody
           THEN /\ response' = [status |-> 400,
                                error |-> "Invalid JSON or missing request body"]
                /\ UNCHANGED <<sessions, clock>>
           ELSE /\ sessions' = save_session(session_id, updated)
                /\ clock' = clock + 1
                /\ response' = [status |-> 200, success |-> TRUE]
        /\ UNCHANGED <<store_vars, runtime_vars, session_files>>

\* POST /api/sessions/<session_id>/answers
submit_answer(session_id, data) ==
    LET session_data == get_session_data(session_id)
        answer_data == [question_id |-> data.question_id,
                        answer |-> data.answer,
                        time_spent |-> data.time_spent,
                        submitted_at |-> clock + 1]
        updated == [session_data EXCEPT
                       !.answers = upsert_answer(session_data.answers, answer_data)]
        \* bookkeeping of the model: the request repeats the one answered just
        \* before it, which recorded its answer
        repeats == /\ request.op = "submit_answer"
                   /\ request.session_id = session_id
                   /\ request.data = data
                   /\ response.status = 200
    IN  /\ request' = [op |-> "submit_answer", session_id |-> session_id, data |-> data,
                       repeats |-> repeats]
        /\ IF session_data = NoSession
           THEN /\ response' = [status |-> 404, error |-> "Session not found"]
                /\ UNCHANGED <<sessions, clock>>
           ELSE IF data = NoBody
           THEN /\ response' = [status |-> 400,
                                error |-> "Invalid JSON or missing request body"]
                /\ UNCHANGED <<sessions, clock>>
           ELSE /\ sessions' = save_session(session_id, updated)
                /\ clock' = clock + 1
                /\ response' = [status |-> 200, success |-> TRUE]
        /\ UNCHANGED <<store_vars, runtime_vars, session_files>>

\* what the archive step of get_report may do: fail before the session is
\* touched (mkdir), fail after it (open, json.dump), or write the file
ArchiveOutcomes == {"mkdir_failed", "open_failed", "written"}

\* get_report without the try around the archive step: a failure of mkdir or
\* of the write fails the request
get_report_failing(session_id, archive) ==
    LET session_data == get_session_data(session_id)
        markdown_report == generate_markdown_report(session_data)
        json_report == generate_json_report(session_data)
        with_report == [session_data EXCEPT !.report = json_report]
        reached == session_data # NoSession
                   /\ ~markdown_report.raised /\ ~json_report.raised
    IN  /\ request' = [op |-> "get_report", session_id |-> session_id,
                       archive |-> IF reached THEN archive ELSE "not_reached"]
        /\ IF session_data = NoSession
           THEN /\ response' = [status |-> 404, error |-> "Session not found"]
                /\ UNCHANGED <<sessions, session_files>>
           ELSE IF markdown_report.raised \/ json_report.raised
           THEN /\ response' = [status |-> 500, error |-> "TypeError"]
                /\ UNCHANGED <<sessions, session_files>>
           ELSE /\ response' = IF archive = "written"
                               THEN [status |-> 200, markdown |-> markdown_report,
                                     json |-> json_report]
                               ELSE [status |-> 500, error |-> "OSError"]
                /\ sessions' = IF archive = "mkdir_failed" THEN sessions
                               ELSE save_session(session_id, with_report)
                /\ session_files' = IF archive = "written"
                                    THEN [session_files EXCEPT ![session_id] = with_report]
                                    ELSE session_files
        /\ UNCHANGED <<store_vars, runtime_vars, clock>>

\* GET /api/sessions/<session_id>/report
get_report(session_id, archive) ==
    LET session_data == get_session_data(session_id)
        markdown_report == generate_markdown_report(session_data)
        json_report == generate_json_report(session_data)
        with_report == [session_data EXCEPT !.report = json_report]
        \* the archive step is reached once both reports are generated
        reached == session_data # NoSession
                   /\ ~markdown_report.raised /\ ~json_report.raised
    IN  /\ request' = [op |-> "get_report", session_id |-> session_id,
                       archive |-> IF reached THEN archive ELSE "not_reached"]
        /\ IF session_data = NoSession
           THEN /\ response' = [status |-> 404, error |-> "Session not found"]
                /\ UNCHANGED <<sessions, session_files>>
           ELSE IF markdown_report.raised \/ json_report.raised
           THEN /\ response' = [status |-> 500, error |-> "TypeError"]
                /\ UNCHANGED <<sessions, session_files>>
           ELSE /\ response' = [status |-> 200, markdown |-> markdown_report,
                                json |-> json_report]
                \* session_data is the stored dict itself: the 'report' key
                \* set before the file is opened lands in the stored session
                /\ sessions' = IF archive = "mkdir_failed" THEN sessions
                               ELSE save_session(session_id, with_report)
                /\ session_files' = IF archive = "written"
                                    THEN [session_files EXCEPT ![session_id] = with_report]
                                    ELSE session_files
        /\ UNCHANGED <<store_vars, runtime_vars, clock>>

\* GET /api/sessions/<session_id>/report/pdf
get_report_pdf(session_id) ==
    LET session_data == get_session_data(session_id)
        pdf_report == generate_pdf_report(session_data)
    IN  /\ request' = [op |-> "get_report_pdf", session_id |-> session_id]
        /\ response' = IF session_data = NoSession
                       THEN [status |-> 404, error |-> "Session not found"]
                       ELSE IF pdf_report.raised
                       THEN [status |-> 500, error |-> "TypeError"]
                       ELSE [status |-> 200, pdf |-> pdf_report]
        /\ UNCHANGED <<store_vars, runtime_vars, sessions, session_files, clock>>

-----------------------------------------------------------------------------
(* The question store's operations, each applied once to drawn inputs *)

FilterRequests ==
    {[op |-> "get_questions", exam_numbers |-> e, categories |-> c] :
        e \in FilterValues(ExamNumbers), c \in FilterValues(Categories)}
    \cup
    {[op |-> o, exam_numbers |-> e, categories |-> c, max_questions |-> m] :
        o \in {"filter_and_sample_questions", "create_session"},
        e \in FilterValues(ExamNumbers), c \in FilterValues(Categories),
        m \in MaxQuestionsValues}
    \cup
    {[op |-> "get_question", question_id |-> q] :
        q \in {QuestionId(k[1], k[2]) : k \in QuestionKeys} \cup {"99_9"}}

InitFilter ==
    /\ RuntimeIdle
    /\ \E qs \in Banks(QuestionKeys, Categories, {PyList(<<1>>)}) : LoadBank(qs)
    /\ sessions = [s \in SessionIds |-> NoSession]
    /\ session_files = [s \in SessionIds |-> NoFile]
    /\ clock = 0
    /\ request \in FilterRequests
    /\ response = NoResponse

GetQuestions ==
    /\ request.op = "get_questions" /\ response = NoResponse
    /\ get_questions(request.exam_numbers, request.categories)

FilterAndSample ==
    /\ request.op = "filter_and_sample_questions" /\ response = NoResponse
    /\ sample_questions(request.exam_numbers, request.categories, request.max_questions)

CreateSessionOnce ==
    /\ request.op = "create_session" /\ response = NoResponse
    /\ \E sid \in IssuedIds :
          create_session(sid, request.exam_numbers, request.categories,
                         request.max_questions)

GetQuestionOnce ==
    /\ request.op = "get_question" /\ response = NoResponse
    /\ get_question(request.question_id)

NextFilter == GetQuestions \/ FilterAndSample \/ CreateSessionOnce \/ GetQuestionOnce

SpecFilter == InitFilter /\ [][NextFilter]_vars

-----------------------------------------------------------------------------
(* Report generation, applied once to a drawn session *)

\* the answers a submit-answer body may carry
AnswerValues ==
    {PyNone, PyScalar(1), PyScalar(2), PyList(<<1>>), PyList(<<1, 3>>), PyList(<<3, 1>>)}

\* the rows of the banks a report is generated over
ReportKeys == {<<29, 1>>, <<30, 1>>}

\* the answers lists submit-answer requests can build: at most one record for
\* a question_id, the i-th record submitted at time i
AnswerLists(ids, n) ==
    {[i \in DOMAIN as |-> [question_id |-> as[i][1], answer |-> as[i][2],
                           time_spent |-> 0, submitted_at |-> i]] :
        as \in {s \in SeqsUpTo(ids \X AnswerValues, n) :
                   \A i, j \in DOMAIN s : s[i][1] = s[j][1] => i = j}}

\* the session create_session stores for a request without filters, with the
\* answers recorded since
UnfilteredSession(session_id, answers) ==
    [session_id |-> session_id,
     mode |-> "test",
     exam_numbers |-> get_exam_numbers,
     categories |-> <<>>,
     max_questions |-> PyNone,
     questions |-> questions,
     answers |-> answers,
     current_question_index |-> 0,
     report |-> NoReport]

InitReport ==
    /\ RuntimeIdle
    /\ \E qs \in Banks(ReportKeys, Categories, CorrectAnswers) : LoadBank(qs)
    \* answers to the questions of the bank and to an id no bank holds
    /\ \E as \in AnswerLists({QuestionId(k[1], k[2]) : k \in ReportKeys} \cup {"99_9"},
                             MaxReportAnswers) :
          sessions = [s \in SessionIds |->
                         IF s = "s1" THEN UnfilteredSession(s, as) ELSE NoSession]
    /\ session_files = [s \in SessionIds |-> NoFile]
    /\ clock = MaxReportAnswers
    /\ request = NoRequest
    /\ response = NoResponse

GetReportOnce ==
    /\ response = NoResponse
    /\ \E sid \in SessionIds, archive \in ArchiveOutcomes : get_report(sid, archive)

NextReport == GetReportOnce

SpecReport == InitReport /\ [][NextReport]_vars

-----------------------------------------------------------------------------
(* The application: sessions created, answered and reported *)

\* the bank the application serves
ExamBank ==
    <<Question(<<29, 1>>, "anatomy", PyList(<<1>>)),
      Question(<<29, 2>>, "physiology", PyList(<<1, 3>>)),
      Question(<<30, 1>>, "anatomy", PyNone)>>

\* the create-session bodies of a run
SessionExamFilters == {PyNone, PyList(<<29>>)}

SessionMaxQuestions == {PyNone, PyScalar(1)}

\* the submit-answer bodies of a run: a question of the session, an id that
\* is no question's, or no question_id at all
SubmitBodies ==
    {[question_id |-> q, answer |-> at[1], time_spent |-> at[2]] :
        q \in {"29_1", "29_2"},
        at \in {<<PyNone, 0>>, <<PyScalar(1), 7>>, <<PyList(<<1, 3>>), 4>>}}
    \cup {[question_id |-> q, answer |-> PyScalar(1), time_spent |-> 0] :
             q \in {"99_9", NoneId}}
    \cup {NoBody}

Init ==
    /\ RuntimeIdle
    /\ LoadBank(ExamBank)
    /\ sessions = [s \in SessionIds |-> NoSession]
    /\ session_files = [s \in SessionIds |-> NoFile]
    /\ clock = 0
    /\ request = NoRequest
    /\ response = NoResponse

\* uuid.uuid4(): a token no session has
CreateSession ==
    \E sid \in IssuedIds, e \in SessionExamFilters, m \in SessionMaxQuestions :
        /\ sessions[sid] = NoSession
        /\ create_session(sid, e, PyNone, m)

SubmitAnswer ==
    \E sid \in SessionIds, data \in SubmitBodies :
        /\ clock < MaxSubmits
        /\ submit_answer(sid, data)

GetSession == \E sid \in SessionIds : get_session(sid)

GetReport == \E sid \in SessionIds, archive \in ArchiveOutcomes : get_report(sid, archive)

Next == CreateSession \/ SubmitAnswer \/ GetSession \/ GetReport

Spec == Init /\ [][Next]_vars

-----------------------------------------------------------------------------
(* The application with every endpoint, over fewer request bodies *)

\* the question ids and the filters the read requests of a run carry
FetchedIds == {"29_2", "99_9"}

ListedExamFilters == {PyNone, PyList(<<30>>)}

\* the submit-answer bodies of a run: an answer to a question of the session,
\* an answer to an id that is no question's, or no JSON body
ApiSubmitBodies ==
    {[question_id |-> "29_1", answer |-> PyScalar(1), time_spent |-> 7],
     [question_id |-> "99_9", answer |-> PyScalar(1), time_spent |-> 0],
     NoBody}

CreateSessionWithoutBody == create_session_without_body

ListQuestions == \E e \in ListedExamFilters : get_questions(e, PyNone)

GetQuestion == \E question_id \in FetchedIds : get_question(question_id)

ApiSubmitAnswer ==
    \E sid \in SessionIds, data \in ApiSubmitBodies :
        /\ clock < MaxApiSubmits
        /\ submit_answer(sid, data)

GetReportPdf == \E sid \in SessionIds : get_report_pdf(sid)

NextApi ==
    \/ CreateSession
    \/ CreateSessionWithoutBody
    \/ ListQuestions
    \/ GetQuestion
    \/ ApiSubmitAnswer
    \/ GetSession
    \/ GetReport
    \/ GetReportPdf

SpecApi == Init /\ [][NextApi]_vars

-----------------------------------------------------------------------------
(* Seeded sampling: one call repeated, between other calls and restarts *)

RngStates == 0..MaxRngState

\* random.seed(seed): the state a seed puts the generator in
seeded_state(seed) == seed % (MaxRngState + 1)

\* random.sample(population, k) of the generator in the given state: k
\* different positions that the state, len(population) and k determine (the
\* generator is deterministic; which positions it yields is not modelled)
random_sample(state, population, k) ==
    [i \in 1..k |-> population[((state + i - 1) % Len(population)) + 1]]

\* the state of the generator after random.sample(population, k)
sampled_state(state, k) == (state + k) % (MaxRngState + 1)

\* the position of an id in the process's iteration order
HashPosition(id) == CHOOSE k \in DOMAIN hash_order : hash_order[k] = id

\* the list filter_questions returns in this process: where the result is
\* read off a set of ids, the set is iterated in the process's hash order
process_filter_questions(exam_numbers, categories) ==
    LET lists == filter_questions(exam_numbers, categories)
    IN  IF Cardinality(lists) = 1 THEN CHOOSE filtered \in lists : TRUE
        ELSE CHOOSE filtered \in lists :
                 \A i, j \in DOMAIN filtered :
                     i < j => HashPosition(filtered[i].id) < HashPosition(filtered[j].id)

\* filter_and_sample_questions(exam_numbers, categories, max_questions, seed)
\* in this process: the list returned and the generator's state after the call
filter_and_sample_questions_seeded(exam_numbers, categories, max_questions, seed) ==
    LET filtered == process_filter_questions(exam_numbers, categories)
        state == IF seed.kind # "null" THEN seeded_state(seed.items[1]) ELSE rng
    IN  IF max_questions.kind = "null" \/ max_questions.items[1] <= 0
        THEN [questions |-> filtered, rng |-> rng]
        ELSE IF Len(filtered) <= max_questions.items[1]
        THEN [questions |-> filtered, rng |-> rng]
        ELSE [questions |-> random_sample(state, filtered, max_questions.items[1]),
              rng |-> sampled_state(state, max_questions.items[1])]

\* a direct call of filter_and_sample_questions with a seed
sample_questions_seeded(exam_numbers, categories, max_questions, seed) ==
    LET result == filter_and_sample_questions_seeded(exam_numbers, categories,
                                                     max_questions, seed)
    IN  /\ request' = [op |-> "filter_and_sample_questions", exam_numbers |-> exam_numbers,
                       categories |-> categories, max_questions |-> max_questions,
                       seed |-> seed]
        /\ response' = [status |-> 200, questions |-> result.questions,
                        total |-> Len(result.questions)]
        /\ rng' = result.rng
        /\ UNCHANGED <<store_vars, sessions, session_files, clock,
                       hash_order, redis, inflight>>

\* a call of filter_and_sample_questions whose result is not looked at
sample_questions_between(exam_numbers, categories, max_questions, seed) ==
    /\ rng' = filter_and_sample_questions_seeded(exam_numbers, categories,
                                                 max_questions, seed).rng
    /\ UNCHANGED <<store_vars, sessions, session_files, clock, request, response,
                   hash_order, redis, inflight>>

\* a new process (a restarted server, another serverless instance) loads the
\* same questions.json: string hashes are randomized per process and the
\* generator is seeded from the system
restart ==
    /\ hash_order' \in Orderings(ToSet(hash_order))
    /\ rng' \in RngStates
    /\ UNCHANGED <<store_vars, sessions, session_files, clock, request, response,
                   redis, inflight>>

\* the seeds and the sample sizes of the calls
Seeds == {PyScalar(1), PyScalar(2)}

SeedMaxQuestions == {PyScalar(1), PyScalar(2)}

SeedExamFilters == {PyNone, PyList(<<29>>), PyList(<<29, 30>>)}

SeedCategoryFilters == {PyNone, PyList(<<"anatomy">>)}

InitSeed ==
    /\ LoadBank(ExamBank)
    /\ sessions = [s \in SessionIds |-> NoSession]
    /\ session_files = [s \in SessionIds |-> NoFile]
    /\ clock = 0
    /\ request \in {[op |-> "filter_and_sample_questions", exam_numbers |-> e,
                      categories |-> c, max_questions |-> m, seed |-> seed] :
                         e \in SeedExamFilters, c \in SeedCategoryFilters,
                         m \in SeedMaxQuestions, seed \in Seeds}
    /\ response = NoResponse
    /\ rng \in RngStates
    /\ hash_order \in Orderings({ExamBank[i].id : i \in DOMAIN ExamBank})
    /\ redis = [s \in SessionIds |-> NoEntry]
    /\ inflight = [w \in Workers |-> Idle]

\* the call under observation, made again
SeededSample ==
    sample_questions_seeded(request.exam_numbers, request.categories,
                            request.max_questions, request.seed)

\* any other sampling call, seeded or not
SampleBetween ==
    \E e \in SeedExamFilters, c \in SeedCategoryFilters,
       m \in SeedMaxQuestions, seed \in Seeds \cup {PyNone} :
        sample_questions_between(e, c, m, seed)

Restart == restart

NextSeed == SeededSample \/ SampleBetween \/ Restart

SpecSeed == InitSeed /\ [][NextSeed]_vars

-----------------------------------------------------------------------------
(* The session store: memory or Redis, two workers, passing time *)

\* redis is None: the sessions are kept in the dict of the process
NoRedis == [configured |-> FALSE]

\* the seconds a key written by save_session lives
SESSION_TTL == 86400

HalfDay == SESSION_TTL \div 2

\* json.dumps(data): a text that holds a copy of the data
json_dumps(data) == [json |-> data]

\* json.loads(text): a new object with the contents the text holds
json_loads(text) == text.json

\* redis.get(key) at the present time: the value of a key that is set and
\* has not expired, NoEntry for None
redis_get(session_id) ==
    IF redis[session_id] # NoEntry /\ clock < redis[session_id].expires_at
    THEN redis[session_id].value
    ELSE NoEntry

\* redis.setex(key, seconds, value): the key holds the value and expires the
\* given seconds from now, whatever it held and whenever that expired
redis_setex(session_id, seconds, value) ==
    [redis EXCEPT ![session_id] = [value |-> value, expires_at |-> clock + seconds]]

\* what a command sent to Redis may do: take effect and answer, or raise
\* without effect
RedisOutcomes == {"ok", "raised"}

\* get_session_data with either store; got is the outcome of redis.get
get_session_data_kv(session_id, got) ==
    IF redis # NoRedis
    THEN IF got = "raised" THEN sessions[session_id]
         ELSE IF redis_get(session_id) # NoEntry THEN json_loads(redis_get(session_id))
         ELSE NoSession
    ELSE sessions[session_id]

\* the session a fetch that reaches the store finds
stored_session(session_id) == get_session_data_kv(session_id, "ok")

\* POST /api/sessions with either store; saved is the outcome of redis.setex
create_session_kv(session_id, exam_numbers_in, categories_in, max_questions, saved) ==
    LET exam_numbers == IF Truthy(exam_numbers_in) THEN exam_numbers_in ELSE PyNone
        categories == IF Truthy(categories_in) THEN categories_in ELSE PyNone
        results ==
            IF max_questions.kind # "null" /\ max_questions.items[1] > 0
            THEN filter_and_sample_questions(exam_numbers, categories, max_questions)
            ELSE filter_questions(exam_numbers, categories)
        save == IF redis = NoRedis THEN "ok" ELSE saved
    IN  \E qs \in results, recount \in filter_questions(exam_numbers, categories) :
            LET session_data ==
                    [session_id |-> session_id,
                     mode |-> "test",
                     exam_numbers |-> IF Truthy(exam_numbers) THEN exam_numbers.items
                                      ELSE get_exam_numbers,
                     categories |-> IF Truthy(categories) THEN categories.items ELSE <<>>,
                     max_questions |-> max_questions,
                     questions |-> qs,
                     answers |-> <<>>,
                     created_at |-> clock,
                     current_question_index |-> 0,
                     report |-> NoReport]
            IN  /\ request' = [op |-> "create_session", exam_numbers |-> exam_numbers_in,
                               categories |-> categories_in,
                               max_questions |-> max_questions, save |-> save]
                /\ IF save = "raised"
                   THEN /\ response' = [status |-> 500, error |-> "Internal Server Error"]
                        /\ UNCHANGED <<sessions, redis>>
                   ELSE /\ response' =
                               [status |-> 200, session_id |-> session_id,
                                total_questions |-> Len(qs),
                                filtered_total |->
                                    IF Truthy(exam_numbers) \/ Truthy(categories)
                                    THEN Len(recount) ELSE Len(get_all_questions)]
                        /\ IF redis = NoRedis
                           THEN /\ sessions' = save_session(session_id, session_data)
                                /\ UNCHANGED redis
                           ELSE /\ redis' = redis_setex(session_id, SESSION_TTL,
                                                        json_dumps(session_data))
                                /\ UNCHANGED sessions
                /\ UNCHANGED <<store_vars, session_files, clock, rng, hash_order, inflight>>

\* GET /api/sessions/<session_id> with either store
get_session_kv(session_id, got) ==
    LET session_data == get_session_data_kv(session_id, got)
        \* bookkeeping of the model: the time the request is served
    IN  /\ request' = [op |-> "get_session", session_id |-> session_id, at |-> clock]
        /\ response' = IF session_data # NoSession
                       THEN [status |-> 200, session |-> session_data]
                       ELSE [status |-> 404, error |-> "Session not found"]
        /\ UNCHANGED <<store_vars, runtime_vars, sessions, session_files, clock>>

\* POST /api/sessions/<session_id>/answers up to the search for a record of
\* the question: the worker has the session (a copy parsed from Redis, or
\* the stored dict itself) and the index it found
begin_submit_answer(w, session_id, data, got) ==
    LET session_data == get_session_data_kv(session_id, got)
        answer_data == [question_id |-> data.question_id,
                        answer |-> data.answer,
                        time_spent |-> data.time_spent,
                        submitted_at |-> clock]
    IN  /\ inflight[w] = Idle
        /\ IF session_data = NoSession
           THEN /\ request' = [op |-> "submit_answer", session_id |-> session_id,
                               data |-> data, save |-> "not_reached"]
                /\ response' = [status |-> 404, error |-> "Session not found"]
                /\ UNCHANGED inflight
           ELSE IF data = NoBody
           THEN /\ request' = [op |-> "submit_answer", session_id |-> session_id,
                               data |-> data, save |-> "not_reached"]
                /\ response' = [status |-> 400,
                                error |-> "Invalid JSON or missing request body"]
                /\ UNCHANGED inflight
           ELSE /\ inflight' =
                       [inflight EXCEPT ![w] =
                           [pc |-> "scanned", session_id |-> session_id, data |-> data,
                            session_data |-> session_data, answer_data |-> answer_data,
                            existing_index |->
                                existing_index(session_data.answers, data.question_id)]]
                /\ UNCHANGED <<request, response>>
        /\ UNCHANGED <<store_vars, sessions, session_files, clock, rng, hash_order, redis>>

\* the answers list after the assignment at the index found, or the append
place_answer(answers, index, answer_data) ==
    IF index # 0 THEN [answers EXCEPT ![index] = answer_data]
    ELSE Append(answers, answer_data)

\* finish_submit_answer sending the session to Redis before the outcome of
\* the command is known, so that a command that raises has taken effect
finish_submit_answer_storing_first(w, saved) ==
    LET job == inflight[w]
        held == IF redis = NoRedis THEN sessions[job.session_id] ELSE job.session_data
        updated == [held EXCEPT
                       !.answers = place_answer(held.answers, job.existing_index,
                                                job.answer_data)]
        save == IF redis = NoRedis THEN "ok" ELSE saved
    IN  /\ job # Idle
        /\ inflight' = [inflight EXCEPT ![w] = Idle]
        /\ request' = [op |-> "submit_answer", session_id |-> job.session_id,
                       data |-> job.data, save |-> save]
        /\ IF redis = NoRedis
           THEN /\ sessions' = save_session(job.session_id, updated)
                /\ UNCHANGED redis
           ELSE /\ redis' = redis_setex(job.session_id, SESSION_TTL, json_dumps(updated))
                /\ UNCHANGED sessions
        /\ response' = IF save = "ok" THEN [status |-> 200, success |-> TRUE]
                       ELSE [status |-> 500, error |-> "Failed to save answer"]
        /\ UNCHANGED <<store_vars, session_files, clock, rng, hash_order>>

\* POST /api/sessions/<session_id>/answers from the assignment or append to
\* the response; saved is the outcome of redis.setex. In memory the list
\* changed is the stored one, as it is now, and the save cannot fail
finish_submit_answer(w, saved) ==
    LET job == inflight[w]
        held == IF redis = NoRedis THEN sessions[job.session_id] ELSE job.session_data
        updated == [held EXCEPT
                       !.answers = place_answer(held.answers, job.existing_index,
                                                job.answer_data)]
        save == IF redis = NoRedis THEN "ok" ELSE saved
    IN  /\ job # Idle
        /\ inflight' = [inflight EXCEPT ![w] = Idle]
        /\ request' = [op |-> "submit_answer", session_id |-> job.session_id,
                       data |-> job.data, save |-> save]
        /\ IF redis = NoRedis
           THEN /\ sessions' = save_session(job.session_id, updated)
                /\ response' = [status |-> 200, success |-> TRUE]
                /\ UNCHANGED redis
           ELSE IF save = "ok"
           THEN /\ redis' = redis_setex(job.session_id, SESSION_TTL, json_dumps(updated))
                /\ response' = [status |-> 200, success |-> TRUE]
                /\ UNCHANGED sessions
           ELSE /\ response' = [status |-> 500, error |-> "Failed to save answer"]
                /\ UNCHANGED <<sessions, redis>>
        /\ UNCHANGED <<store_vars, session_files, clock, rng, hash_order>>

\* half a day passes
tick ==
    /\ clock' = clock + HalfDay
    /\ UNCHANGED <<store_vars, runtime_vars, sessions, session_files, request, response>>

\* the submit-answer bodies of a run of the store
KvSubmitBodies ==
    {[question_id |-> qa[1], answer |-> PyScalar(qa[2]), time_spent |-> 0] :
        qa \in {<<"29_1", 1>>, <<"29_1", 2>>, <<"29_2", 1>>}}
    \cup {NoBody}

InitKv ==
    /\ LoadBank(ExamBank)
    /\ sessions = [s \in SessionIds |-> NoSession]
    /\ session_files = [s \in SessionIds |-> NoFile]
    /\ clock = 0
    /\ request = NoRequest
    /\ response = NoResponse
    /\ rng = 0
    /\ hash_order = <<>>
    /\ redis \in {NoRedis, [s \in SessionIds |-> NoEntry]}
    /\ inflight = [w \in Workers |-> Idle]

\* uuid.uuid4(): a token no session has or had
KvCreateSession ==
    \E sid \in IssuedIds, saved \in RedisOutcomes :
        /\ sessions[sid] = NoSession
        /\ redis # NoRedis => redis[sid] = NoEntry
        /\ create_session_kv(sid, PyList(<<29>>), PyNone, PyNone, saved)

KvGetSession ==
    \E sid \in SessionIds, got \in RedisOutcomes : get_session_kv(sid, got)

\* the requests are served one after the other, by one worker
KvBeginSubmitAnswer ==
    \E sid \in SessionIds, data \in KvSubmitBodies, got \in RedisOutcomes :
        begin_submit_answer("w1", sid, data, got)

KvFinishSubmitAnswer ==
    \E saved \in RedisOutcomes : finish_submit_answer("w1", saved)

\* a request is served in far less than half a day: none is under way
\* when the half day ends
Tick ==
    /\ clock < MaxTicks * HalfDay
    /\ \A w \in Workers : inflight[w] = Idle
    /\ tick

NextKv ==
    KvCreateSession \/ KvGetSession \/ KvBeginSubmitAnswer \/ KvFinishSubmitAnswer \/ Tick

SpecKv == InitKv /\ [][NextKv]_vars

-----------------------------------------------------------------------------
(* The session store under requests served at the same time *)

BeginSubmitAnswer ==
    \E w \in Workers, sid \in SessionIds, data \in KvSubmitBodies, got \in RedisOutcomes :
        begin_submit_answer(w, sid, data, got)

FinishSubmitAnswer ==
    \E w \in Workers, saved \in RedisOutcomes : finish_submit_answer(w, saved)

NextWorkers == KvCreateSession \/ KvGetSession \/ BeginSubmitAnswer \/ FinishSubmitAnswer

SpecWorkers == InitKv /\ [][NextWorkers]_vars

-----------------------------------------------------------------------------
(* The PDF of a long session, generated once *)

\* excel_loader ids of the questions of one sitting
PdfIds ==
    <<"29_1", "29_2", "29_3", "29_4", "29_5", "29_6", "29_7",
      "29_8", "29_9", "29_10", "29_11", "29_12", "29_13", "29_14">>

\* a bank with a question for every answer of the longest session
PdfBank ==
    [i \in 1..Min(MaxPdfAnswers, Len(PdfIds)) |->
        [id |-> PdfIds[i], exam_number |-> 29, category |-> "anatomy",
         correct_answer |-> PyList(<<1>>)]]

\* the answers list n submit-answer requests leave, each to another
\* question; the u-th (if u > 0) names an id that is no question's
PdfAnswers(n, u, answer) ==
    [i \in 1..n |-> [question_id |-> IF i = u THEN "99_9" ELSE PdfIds[i],
                     answer |-> answer, time_spent |-> 0, submitted_at |-> i]]

InitPdf ==
    /\ RuntimeIdle
    /\ LoadBank(PdfBank)
    /\ \E n \in 0..Len(PdfBank), answer \in {PyNone, PyScalar(1)} :
          \E u \in 0..n :
              sessions = [s \in SessionIds |->
                             IF s = "s1"
                             THEN UnfilteredSession(s, PdfAnswers(n, u, answer))
                             ELSE NoSession]
    /\ session_files = [s \in SessionIds |-> NoFile]
    /\ clock = MaxPdfAnswers
    /\ request = NoRequest
    /\ response = NoResponse

GetReportPdfOnce ==
    /\ response = NoResponse
    /\ \E sid \in SessionIds : get_report_pdf(sid)

NextPdf == GetReportPdfOnce

SpecPdf == InitPdf /\ [][NextPdf]_vars

-----------------------------------------------------------------------------
(* Properties of the question store *)

\* the number of entries of list s equal to x
Count(s, x) == Cardinality({i \in DOMAIN s : s[i] = x})

\* the bank's question q passes the given lists of exam numbers and categories
\* (a list that is not given passes every question)
Passes(q, exam_numbers, categories) ==
    /\ Truthy(exam_numbers) => q.exam_number \in ToSet(exam_numbers.items)
    /\ Truthy(categories) => q.category \in ToSet(categories.items)

\* list r holds each question of the bank that passes once, and nothing else
ExactlyThePassing(r, exam_numbers, categories) ==
    /\ \A i \in DOMAIN questions :
          Count(r, questions[i]) =
              IF Passes(questions[i], exam_numbers, categories) THEN 1 ELSE 0
    /\ \A j \in DOMAIN r : r[j] \in ToSet(questions)

Filtered == request.op = "get_questions" /\ response # NoResponse

Sampled == request.op = "filter_and_sample_questions" /\ response # NoResponse

Created == request.op = "create_session" /\ response # NoResponse /\ response.status = 200

\* C1: filter_questions with a non-empty list of exam numbers and a non-empty
\* list of categories returns exactly the questions of the bank whose
\* exam_number is in the first and whose category is in the second, each once;
\* with both lists empty or absent it returns the bank's question list.
C1_FilterIntersection ==
    Filtered =>
        /\ (Truthy(request.exam_numbers) /\ Truthy(request.categories)) =>
              ExactlyThePassing(response.questions, request.exam_numbers,
                                request.categories)
        /\ (~Truthy(request.exam_numbers) /\ ~Truthy(request.categories)) =>
              response.questions = questions

\* a filter on both dimensions that keeps two questions of three, one of the
\* lists naming a value twice
C1_Witness ==
    /\ Filtered
    /\ Truthy(request.exam_numbers) /\ Truthy(request.categories)
    /\ Len(request.exam_numbers.items) = 2
    /\ request.exam_numbers.items[1] = request.exam_numbers.items[2]
    /\ Len(questions) = 3
    /\ Len(response.questions) = 2

\* C2: filter_questions with one filter only returns exactly the bank's
\* questions whose exam_number (resp. category) is a listed value, each
\* question once, also when a value is listed twice or is unknown to the bank.
C2_SingleFilterEachOnce ==
    (Filtered /\ (Truthy(request.exam_numbers) # Truthy(request.categories))) =>
        ExactlyThePassing(response.questions, request.exam_numbers, request.categories)

\* C3: for max_questions > 0, filter_and_sample_questions returns at most
\* max_questions questions, and a session created with that max_questions
\* holds at most max_questions questions.
C3_SampleCapped ==
    /\ (Sampled /\ request.max_questions.kind = "scalar"
                /\ request.max_questions.items[1] > 0) =>
           Len(response.questions) <= request.max_questions.items[1]
    /\ (Created /\ request.max_questions.kind = "scalar"
                /\ request.max_questions.items[1] > 0) =>
           /\ Len(sessions[response.session_id].questions)
                  <= request.max_questions.items[1]
           /\ response.total_questions <= request.max_questions.items[1]

\* a session created with max_questions = 2 over a filter that three
\* questions pass
C3_Witness ==
    /\ Created
    /\ request.max_questions = PyScalar(2)
    /\ response.filtered_total = 3
    /\ Len(sessions[response.session_id].questions) = 2

\* C4: filter_and_sample_questions never returns a question id twice, the
\* ids of the bank being unique.
C4_SampleNoDuplicate ==
    Sampled =>
        \A i, j \in DOMAIN response.questions :
            response.questions[i].id = response.questions[j].id => i = j

-----------------------------------------------------------------------------
(* Properties of scoring and of the reports *)

Reported == request.op = "get_report" /\ response.status = 200

\* the session the last request named
NamedSession == sessions[request.session_id]

\* the question of session_data that an answer refers to, if there is one
Resolves(session_data, answer_data) ==
    \E i \in DOMAIN session_data.questions :
        session_data.questions[i].id = answer_data.question_id

QuestionOf(session_data, answer_data) ==
    session_data.questions[CHOOSE i \in DOMAIN session_data.questions :
                               session_data.questions[i].id = answer_data.question_id]

\* the positions of the resolved list answers of session_data whose set of
\* labels equals (same = TRUE) or differs from (same = FALSE) the question's
ListAnswers(session_data, same) ==
    {i \in DOMAIN session_data.answers :
        /\ Resolves(session_data, session_data.answers[i])
        /\ session_data.answers[i].answer.kind = "list"
        /\ (ToSet(session_data.answers[i].answer.items) =
            ToSet(QuestionOf(session_data, session_data.answers[i]).correct_answer.items))
           = same}

NullAnswers(session_data) ==
    {i \in DOMAIN session_data.answers :
        /\ Resolves(session_data, session_data.answers[i])
        /\ session_data.answers[i].answer.kind = "null"}

\* C6: a list answer whose set of labels equals the question's correct-answer
\* set is scored correct, a list answer whose set differs is scored incorrect,
\* and a null answer is scored unanswered whatever the correct answer is: in
\* the result lines of the Markdown report and in the counts of the JSON report.
C6_ListAndNullScoring ==
    Reported =>
        /\ \A k \in DOMAIN response.markdown.details :
              LET number == response.markdown.details[k].number
                  result == response.markdown.details[k].result
              IN  /\ number \in ListAnswers(NamedSession, TRUE) => result = "correct"
                  /\ number \in ListAnswers(NamedSession, FALSE) => result = "incorrect"
                  /\ number \in NullAnswers(NamedSession) => result = "unanswered"
        /\ \A i \in ListAnswers(NamedSession, TRUE) \cup ListAnswers(NamedSession, FALSE)
                    \cup NullAnswers(NamedSession) :
              \E k \in DOMAIN response.markdown.details :
                  response.markdown.details[k].number = i
        /\ response.json.correct >= Cardinality(ListAnswers(NamedSession, TRUE))
        /\ response.json.incorrect >= Cardinality(ListAnswers(NamedSession, FALSE))
        /\ response.json.unanswered = Cardinality(NullAnswers(NamedSession))
        /\ response.markdown.correct >= Cardinality(ListAnswers(NamedSession, TRUE))
        /\ response.markdown.incorrect >= Cardinality(ListAnswers(NamedSession, FALSE))
        /\ response.markdown.unanswered = Cardinality(NullAnswers(NamedSession))

\* a report on the answer [3, 1] to a question whose correct answer is [1, 3]
\* and a null answer to a question that has no correct answer
C6_Witness ==
    /\ Reported
    /\ Len(NamedSession.answers) = 2
    /\ NamedSession.answers[1].answer = PyList(<<3, 1>>)
    /\ 1 \in ListAnswers(NamedSession, TRUE)
    /\ 2 \in NullAnswers(NamedSession)
    /\ QuestionOf(NamedSession, NamedSession.answers[2]).correct_answer = PyNone
    /\ response.json.correct = 1 /\ response.json.unanswered = 1

\* C7: for a question with more than one correct label, an answer (a scalar
\* counting as the one-element set) is scored correct only when it selects
\* exactly all the correct labels.
C7_CorrectOnlyIfAllLabels ==
    Reported =>
        \A k \in DOMAIN response.markdown.details :
            LET answer_data == NamedSession.answers[response.markdown.details[k].number]
                correct_answer == QuestionOf(NamedSession, answer_data).correct_answer
            IN  (/\ Cardinality(ToSet(correct_answer.items)) > 1
                 /\ response.markdown.details[k].result = "correct") =>
                    ToSet(answer_data.answer.items) = ToSet(correct_answer.items)

\* C8: in the report of a session, correct + incorrect + unanswered equals
\* total, the number of answers recorded in the session.
C8_TotalsAddUp ==
    Reported =>
        /\ response.json.total = Len(NamedSession.answers)
        /\ response.json.correct + response.json.incorrect + response.json.unanswered
               = response.json.total

-----------------------------------------------------------------------------
(* Properties of answer submission *)

\* the step answers a submit-answer request on session sid with success
Submits(sid) ==
    /\ request'.op = "submit_answer"
    /\ request'.session_id = sid
    /\ response'.status = 200

\* the records of an answers list without their submission times
Stripped(answers) ==
    [i \in DOMAIN answers |->
        [question_id |-> answers[i].question_id, answer |-> answers[i].answer,
         time_spent |-> answers[i].time_spent]]

\* C9: after any sequence of submit-answer requests a session's answers list
\* holds at most one record per question_id, and that record carries the
\* answer and time_spent of the most recent submission for the question_id:
\* a submission leaves one record of its question_id, with its answer and
\* time_spent, and every other record as it was; no other step changes the list.
C9_UpsertByQuestionId ==
    [][\A sid \in SessionIds :
          sessions'[sid] # NoSession =>
              LET before == IF sessions[sid] = NoSession THEN <<>>
                            ELSE sessions[sid].answers
                  after == sessions'[sid].answers
              IN  /\ \A i, j \in DOMAIN after :
                        after[i].question_id = after[j].question_id => i = j
                  /\ IF Submits(sid)
                     THEN /\ \E i \in DOMAIN after :
                                /\ after[i].question_id = request'.data.question_id
                                /\ after[i].answer = request'.data.answer
                                /\ after[i].time_spent = request'.data.time_spent
                          /\ \A i \in DOMAIN before :
                                before[i].question_id # request'.data.question_id =>
                                    before[i] \in ToSet(after)
                          /\ \A i \in DOMAIN after :
                                after[i].question_id # request'.data.question_id =>
                                    after[i] \in ToSet(before)
                     ELSE after = before]_vars

\* a second submission for a question has replaced the record of the first:
\* the one record of the list carries the later time, answer and time_spent
C9_Witness ==
    /\ request.op = "submit_answer" /\ response.status = 200
    /\ ~request.repeats
    /\ Len(NamedSession.answers) = 1
    /\ NamedSession.answers[1].submitted_at = 2
    /\ NamedSession.answers[1].question_id = "29_1"
    /\ NamedSession.answers[1].answer = PyList(<<1, 3>>)
    /\ NamedSession.answers[1].time_spent = 4

-----------------------------------------------------------------------------
(* Properties of the answers a session holds and of its reports *)

\* C11: every question_id recorded in the answers of a session is the id of a
\* question of the question store.
C11_AnswersReferToStore ==
    \A sid \in SessionIds :
        sessions[sid] # NoSession =>
            \A i \in DOMAIN sessions[sid].answers :
                \E j \in DOMAIN questions :
                    questions[j].id = sessions[sid].answers[i].question_id

\* the positions of the answers of session_data whose question_id is the id
\* of a question of the session (resolved = TRUE) or of none (resolved = FALSE)
AnswersResolving(session_data, resolved) ==
    {i \in DOMAIN session_data.answers :
        Resolves(session_data, session_data.answers[i]) = resolved}

\* the sum of f[k].total over the keys of category_stats
RECURSIVE CategoryTotals(_)
CategoryTotals(category_stats) ==
    IF DOMAIN category_stats = {} THEN 0
    ELSE LET cat == CHOOSE c \in DOMAIN category_stats : TRUE
         IN  category_stats[cat].total
             + CategoryTotals([c \in DOMAIN category_stats \ {cat} |-> category_stats[c]])

\* C12: get-report on a session that holds an answer whose question_id is no
\* question's succeeds, and that answer is counted neither correct, incorrect
\* nor unanswered, enters no category's statistics and has no entry in the
\* per-question details: the counts, the category totals and the detail
\* entries are those of the answers that resolve.
C12_UnresolvedAnswerSkipped ==
    (/\ request.op = "get_report"
     /\ NamedSession # NoSession
     /\ AnswersResolving(NamedSession, FALSE) # {}) =>
        /\ response.status = 200
        /\ response.json.correct + response.json.incorrect + response.json.unanswered
               = Cardinality(AnswersResolving(NamedSession, TRUE))
        /\ response.markdown.correct + response.markdown.incorrect
               + response.markdown.unanswered
               = Cardinality(AnswersResolving(NamedSession, TRUE))
        /\ CategoryTotals(response.json.category_stats)
               = Cardinality(AnswersResolving(NamedSession, TRUE))
        /\ CategoryTotals(response.markdown.category_stats)
               = Cardinality(AnswersResolving(NamedSession, TRUE))
        /\ {response.markdown.details[k].number : k \in DOMAIN response.markdown.details}
               = AnswersResolving(NamedSession, TRUE)

\* C13: get-report leaves the stored session as it was: what get-session
\* returns after the request is what it returned before.
C13_ReportLeavesSession ==
    [][request'.op = "get_report" => sessions' = sessions]_vars

\* C16: submit-answer on an existing session with a JSON body that carries no
\* question_id is answered 400, and the session holds no answer without a
\* question_id.
C16_MissingQuestionIdRejected ==
    (/\ request.op = "submit_answer"
     /\ NamedSession # NoSession
     /\ request.data # NoBody
     /\ request.data.question_id = NoneId) =>
        /\ response.status = 400
        /\ \A i \in DOMAIN NamedSession.answers :
              NamedSession.answers[i].question_id # NoneId

\* C17: when the archive step of get-report fails (mkdir, or the write of the
\* snapshot), the request is answered 200 with the Markdown and the JSON report
\* of the session.
C17_ArchiveFailureSwallowed ==
    (request.op = "get_report" /\ request.archive \in {"mkdir_failed", "open_failed"}) =>
        /\ response.status = 200
        /\ response.markdown = generate_markdown_report(NamedSession)
        /\ response.json = generate_json_report(NamedSession)

\* the write of the snapshot has failed for a session of two answers, one of
\* them correct: the report is returned and no file is left
C17_Witness ==
    /\ request.op = "get_report" /\ request.archive = "open_failed"
    /\ response.status = 200
    /\ response.json.total = 2 /\ response.json.correct = 1
    /\ Len(response.markdown.details) = 2
    /\ session_files[request.session_id] = NoFile

-----------------------------------------------------------------------------
(* Properties of the endpoints *)

\* the requests that name a session
SessionScoped == {"get_session", "submit_answer", "get_report", "get_report_pdf"}

C18_QuestionSetFixed ==
    [][\A sid \in SessionIds :
          (sessions[sid] # NoSession /\ sessions'[sid] # NoSession) =>
              sessions'[sid].questions = sessions[sid].questions]_vars

\* a session created with one sampled question has recorded two answers, one
\* to its question, and has been reported
C18_Witness ==
    /\ sessions["s1"] # NoSession
    /\ sessions["s1"].max_questions = PyScalar(1)
    /\ Len(sessions["s1"].questions) = 1
    /\ sessions["s1"].questions[1].id = "29_1"
    /\ Len(sessions["s1"].answers) = 2
    /\ sessions["s1"].report # NoReport

\* C19: no request changes the question store: the question list, its order,
\* its records and the three indexes stay as loaded.
C19_StoreReadOnly ==
    [][/\ questions' = questions
       /\ _exam_number_index' = _exam_number_index
       /\ _category_index' = _category_index
       /\ _id_index' = _id_index]_vars

\* a session sampled from the whole store has been answered and reported, as
\* a PDF last, and the store is the bank that was loaded
C19_Witness ==
    /\ request.op = "get_report_pdf" /\ response.status = 200
    /\ NamedSession.max_questions = PyScalar(1)
    /\ NamedSession.exam_numbers = <<29, 30>>
    /\ Len(NamedSession.answers) = 1
    /\ NamedSession.report # NoReport
    /\ questions = ExamBank
    /\ _id_index = IdIndex(ExamBank)

-----------------------------------------------------------------------------
(* Properties of report generation and of the create-session response *)

\* C29: report generation is total: get-report on a session whose questions
\* are the store's and whose answers are null, scalars or lists is answered
\* with the reports, also when a question's correct answer is null or the
\* empty list.
C29_ReportGenerationTotal ==
    (request.op = "get_report" /\ NamedSession # NoSession) => response.status = 200

\* C30: in the create-session response total_questions is the number of
\* questions stored in the session and is at most filtered_total; it is
\* min(max_questions, filtered_total) when max_questions > 0 and
\* filtered_total when max_questions is null or not positive; filtered_total
\* is the length of the list filter_questions returns for the same filters.
C30_CreatedTotals ==
    Created =>
        /\ response.total_questions = Len(sessions[response.session_id].questions)
        /\ response.total_questions <= response.filtered_total
        /\ {response.filtered_total} =
               {Len(filtered) :
                   filtered \in filter_questions(request.exam_numbers, request.categories)}
        /\ response.total_questions =
               IF request.max_questions.kind = "scalar"
                  /\ request.max_questions.items[1] > 0
               THEN Min(request.max_questions.items[1], response.filtered_total)
               ELSE response.filtered_total

\* a session of three questions sampled from a filtered list of four, the
\* store holding three questions
C30_Witness ==
    /\ Created
    /\ request.max_questions = PyScalar(3)
    /\ Truthy(request.exam_numbers) /\ ~Truthy(request.categories)
    /\ response.filtered_total = 4
    /\ response.total_questions = 3
    /\ Len(questions) = 3

\* the categories of the list come by descending correct / total, and are
\* the categories of the statistics, each once
Descending(sections, category_stats) ==
    /\ ToSet(sections) = DOMAIN category_stats
    /\ Len(sections) = Cardinality(DOMAIN category_stats)
    /\ \A i, j \in DOMAIN sections :
          i < j => category_stats[sections[i]].correct * category_stats[sections[j]].total
                     >= category_stats[sections[j]].correct * category_stats[sections[i]].total

\* C22: the category sections of a report come by descending accuracy
\* (correct / total of the category), in the Markdown report and in the PDF.
C22_CategoriesByAccuracy ==
    Reported =>
        /\ Descending(response.markdown.sections, response.markdown.category_stats)
        /\ LET pdf_report == generate_pdf_report(NamedSession)
           IN  /\ ~pdf_report.raised
               /\ Descending(pdf_report.sections, pdf_report.category_stats)

\* the category of the second answer, all correct, comes before the category
\* of the first answer, none correct
C22_Witness ==
    /\ Reported
    /\ Len(NamedSession.answers) = 2
    /\ Len(response.markdown.sections) = 2
    /\ response.markdown.sections[2] = QuestionOf(NamedSession, NamedSession.answers[1]).category
    /\ response.markdown.category_stats[response.markdown.sections[1]].correct = 1
    /\ response.markdown.category_stats[response.markdown.sections[2]].correct = 0

\* the figures two reports share
Figures(report) ==
    [total |-> report.total, correct |-> report.correct, incorrect |-> report.incorrect,
     unanswered |-> report.unanswered, category_stats |-> report.category_stats]

\* the verdicts of a list of per-question entries, by answer position
Verdicts(entries) ==
    {<<entries[k].number, entries[k].result>> :
        k \in {n \in DOMAIN entries : "kind" \notin DOMAIN entries[n]
                                         \/ entries[n].kind = "detail"}}

\* C25: the Markdown, the JSON and the PDF report of a session carry the same
\* total, correct, incorrect and unanswered counts and the same category
\* statistics, the Markdown and the PDF give every answer whose question
\* resolves the same verdict, and a session one generator fails on fails the
\* others.
C25_ViewsAgree ==
    (request.op = "get_report" /\ NamedSession # NoSession) =>
        LET pdf_report == generate_pdf_report(NamedSession)
        IN  IF response.status = 200
            THEN /\ ~pdf_report.raised
                 /\ Figures(response.markdown) = Figures(response.json)
                 /\ Figures(pdf_report) = Figures(response.json)
                 /\ Verdicts(pdf_report.story) = Verdicts(response.markdown.details)
            ELSE pdf_report.raised

\* the reports of a scalar answer that is one of the two correct labels of
\* its question, and of a null answer
C25_Witness ==
    /\ Reported
    /\ Len(NamedSession.answers) = 2
    /\ NamedSession.answers[1].answer.kind = "scalar"
    /\ Resolves(NamedSession, NamedSession.answers[1])
    /\ QuestionOf(NamedSession, NamedSession.answers[1]).correct_answer = PyList(<<1, 3>>)
    /\ response.json.correct = 1 /\ response.json.unanswered = 1
    /\ Len(generate_pdf_report(NamedSession).story) = 2

\* C27: in the PDF of a session with n answers a page break follows the
\* detail of the i-th answer exactly when i is a multiple of 10 and i < n, and
\* no page holds the details of more than 10 answers.
C27_PageBreakEveryTen ==
    (request.op = "get_report_pdf" /\ response.status = 200) =>
        LET story == response.pdf.story
            n == Len(NamedSession.answers)
        IN  /\ \A i \in 1..n :
                  (\E k \in DOMAIN story :
                      story[k].kind = "PageBreak" /\ story[k].number = i)
                  <=> (i % QuestionsPerPage = 0 /\ i < n)
            /\ \A k \in DOMAIN story :
                  story[k].kind = "PageBreak" =>
                      /\ k > 1
                      /\ story[k - 1].kind = "detail"
                      /\ story[k - 1].number = story[k].number
            /\ \A a, b \in DOMAIN story :
                  (a <= b /\ \A k \in a..b : story[k].kind = "detail") =>
                      b - a + 1 <= QuestionsPerPage

-----------------------------------------------------------------------------
(* Properties of seeded sampling *)

\* C21: a call of filter_and_sample_questions with a non-null seed returns
\* the list, in the order, that the call with the same filters,
\* max_questions and seed on the same store returned before, whatever
\* sampling calls were made in between.
C21_SeededSampleRepeats ==
    [][(response # NoResponse /\ request' = request) =>
          response'.questions = response.questions]_vars

-----------------------------------------------------------------------------
(* Properties of the session store *)

\* the question ids that have a record in a session
AnsweredIds(session_data) ==
    IF session_data = NoSession THEN {}
    ELSE {session_data.answers[i].question_id : i \in DOMAIN session_data.answers}

\* C23: under any interleaving of submit-answer requests served at the same
\* time on one session, the stored session never holds two answer records
\* with the same question_id.
C23_OneRecordPerQuestion ==
    \A sid \in SessionIds :
        LET session_data == stored_session(sid)
        IN  session_data # NoSession =>
                \A i, j \in DOMAIN session_data.answers :
                    session_data.answers[i].question_id
                        = session_data.answers[j].question_id => i = j

\* C24: answers are never lost: a question that has a record in the stored
\* session (a submit-answer request for it has returned success) has one in
\* every later state of the stored session, under any interleaving of
\* submit-answer requests served at the same time.
C24_AnswersNeverLost ==
    [][\A sid \in SessionIds :
          stored_session(sid)' # NoSession =>
              AnsweredIds(stored_session(sid)) \subseteq AnsweredIds(stored_session(sid)')]_vars

\* C26: a session expires 24 hours after its creation: a fetch of the session
\* more than 24 hours after the create-session request finds no session,
\* whatever was submitted in between.
C26_ExpiresAfterTtl ==
    (request.op = "get_session" /\ response.status = 200) =>
        request.at <= response.session.created_at + SESSION_TTL

\* C28: a submit-answer request whose save fails is answered with 500
\* 'Failed to save answer' and leaves the stored sessions as they were.
C28_FailedSaveLeavesSession ==
    [][(request'.op = "submit_answer" /\ request'.save = "raised"
            /\ inflight' # inflight) =>
          /\ response' = [status |-> 500, error |-> "Failed to save answer"]
          /\ UNCHANGED <<sessions, redis>>]_vars

\* a submit-answer request on a stored session with answers was answered
\* with 500 after its save failed
C28_Witness ==
    /\ request.op = "submit_answer"
    /\ request.save = "raised"
    /\ response.status = 500
    /\ AnsweredIds(stored_session(request.session_id)) # {}

====
